---- MODULE Spec2Model ----
(***************************************************************************)
(* The two prediction notebooks as one state machine: each notebook cell   *)
(* is an action, the script-level variables are the state.  Prices are     *)
(* integers in a fixed unit, pandas floats are tagged values (a rational,  *)
(* NaN, or an infinity) so that 0/0, x/0 and dropna behave as in pandas.   *)
(***************************************************************************)
EXTENDS Integers, Sequences, FiniteSets

VARIABLES variant, pc, prices, headlines, sentiment, data, train, test,
          model, predictions, error, executed

vars == <<variant, pc, prices, headlines, sentiment, data, train, test,
          model, predictions, error, executed>>

(***************************************************************************)
(* Bounds of the explored inputs.                                          *)
(***************************************************************************)
MaxSegs == 3          \* runs (rising, falling, flat) in a downloaded series
MaxSeed == 1          \* seeds of random.choice enumerated (0..MaxSeed)
MaxArticles == 2      \* articles in a successful NewsAPI response
MaxNoisePeriod == 2   \* period of the enumerated noise patterns
FirstClose == 100     \* first close of a downloaded series

(***************************************************************************)
(* Program constants.                                                      *)
(***************************************************************************)
MA20Window == 20
MA50Window == 50
RSIPeriod == 14
TestPercent == 20
SynthPeriods == 200
LinStart == 100
LinStop == 150
NoiseStd == 2
HttpOk == 200

(***************************************************************************)
(* pandas / numpy floats.                                                  *)
(***************************************************************************)
NaN == [k |-> "nan", n |-> 0, d |-> 1]
Inf(sgn) == [k |-> "inf", n |-> sgn, d |-> 1]
Num(n, d) == [k |-> "num", n |-> n, d |-> d]
IsNaN(x) == x.k = "nan"
IsFinite(x) == x.k = "num"
Sign(i) == IF i > 0 THEN 1 ELSE IF i < 0 THEN 0 - 1 ELSE 0

\* a division guarded against a zero divisor: x/0 gives NaN instead of an infinity
FDiv_zero_guard(a, b) ==
    IF IsNaN(a) \/ IsNaN(b) THEN NaN
    ELSE IF b.k = "inf" THEN (IF a.k = "inf" THEN NaN ELSE Num(0, 1))
    ELSE IF a.k = "inf" THEN Inf(a.n * (IF b.n < 0 THEN 0 - 1 ELSE 1))
    ELSE IF b.n = 0 THEN NaN
    ELSE Num(a.n * b.d * Sign(b.n), a.d * b.n * Sign(b.n))

\* IEEE-754 division as numpy performs it on float columns.
FDiv(a, b) ==
    IF IsNaN(a) \/ IsNaN(b) THEN NaN
    ELSE IF b.k = "inf" THEN (IF a.k = "inf" THEN NaN ELSE Num(0, 1))
    ELSE IF a.k = "inf" THEN Inf(a.n * (IF b.n < 0 THEN 0 - 1 ELSE 1))
    ELSE IF b.n = 0 THEN (IF a.n = 0 THEN NaN ELSE Inf(Sign(a.n)))
    ELSE Num(a.n * b.d * Sign(b.n), a.d * b.n * Sign(b.n))

FAdd(a, b) ==
    IF IsNaN(a) \/ IsNaN(b) THEN NaN
    ELSE IF a.k = "inf" /\ b.k = "inf" THEN (IF a.n = b.n THEN a ELSE NaN)
    ELSE IF a.k = "inf" THEN a
    ELSE IF b.k = "inf" THEN b
    ELSE Num(a.n * b.d + b.n * a.d, a.d * b.d)

FNeg(a) == IF IsNaN(a) THEN NaN ELSE [a EXCEPT !.n = 0 - a.n]
FSub(a, b) == FAdd(a, FNeg(b))

\* a <= b on finite values
FLe(a, b) == a.n * b.d <= b.n * a.d
FEq(a, b) == a.k = b.k /\ (a.k = "num" => a.n * b.d = b.n * a.d)
                       /\ (a.k = "inf" => a.n = b.n)

RECURSIVE SumRange(_, _, _)
SumRange(s, a, b) == IF a > b THEN 0 ELSE s[b] + SumRange(s, a, b - 1)

\* Series.rolling(window=w).mean() on a column without NaN
RollingMean(s, w) ==
    [i \in 1..Len(s) |-> IF i < w THEN NaN ELSE Num(SumRange(s, i - w + 1, i), w)]

\* Series.diff(): first entry NaN
Diff(s) == [i \in 1..Len(s) |-> IF i = 1 THEN NaN ELSE Num(s[i] - s[i - 1], 1)]

\* delta.where(delta > 0, 0): NaN > 0 is False, so NaN becomes 0
GainOf(delta) == [i \in 1..Len(delta) |->
                    IF IsFinite(delta[i]) /\ delta[i].n > 0 THEN delta[i].n ELSE 0]
\* -delta.where(delta < 0, 0)
LossOf(delta) == [i \in 1..Len(delta) |->
                    0 - (IF IsFinite(delta[i]) /\ delta[i].n < 0 THEN delta[i].n ELSE 0)]

\* an RSI that fills an undefined ratio with the neutral value 50
RSIFormula_fill50(RS) ==
    IF IsNaN(RS) THEN Num(50, 1)
    ELSE FSub(Num(100, 1), FDiv(Num(100, 1), FAdd(Num(1, 1), RS)))

RSIFormula(RS) == FSub(Num(100, 1), FDiv(Num(100, 1), FAdd(Num(1, 1), RS)))

\* gain = (delta.where(delta > 0, 0)).rolling(window=period).mean()
MeanGain(series, period) == RollingMean(GainOf(Diff(series)), period)
\* loss = (-delta.where(delta < 0, 0)).rolling(window=period).mean()
MeanLoss(series, period) == RollingMean(LossOf(Diff(series)), period)

compute_RSI(series, period) ==
    LET gain == MeanGain(series, period)
        loss == MeanLoss(series, period)
    IN  [i \in 1..Len(series) |-> RSIFormula(FDiv(gain[i], loss[i]))]

(***************************************************************************)
(* DataFrame helpers.  A row carries Date (the position of the observation *)
(* in the loaded series) and its columns.                                  *)
(***************************************************************************)
RowHasNaN(r) == IsNaN(r.MA20) \/ IsNaN(r.MA50) \/ IsNaN(r.RSI) \/ IsNaN(r.Sentiment)

\* a dropna restricted to the moving averages (subset=['MA20', 'MA50'])
Dropna_subset_MA(df) == SelectSeq(df, LAMBDA r : ~(IsNaN(r.MA20) \/ IsNaN(r.MA50)))

\* DataFrame.dropna(): drops the rows holding a NaN; an infinity is kept.  It runs
\* before and after Target is added; Target is an int column and never NaN.
Dropna(df) == SelectSeq(df, LAMBDA r : ~RowHasNaN(r))

\* Close.shift(-1): the close of the next row of the frame, NaN on the last row
ShiftBack(df, j) == IF j < Len(df) THEN Num(df[j + 1].Close, 1) ELSE NaN

\* (a > b).astype(int): a comparison with NaN is False
GtAsInt(a, b) == IF IsFinite(a) /\ a.n > b * a.d THEN 1 ELSE 0

\* a label that also looks at the row's sentiment
TargetOf_sentiment_leak(df, j) ==
    IF df[j].Sentiment.n > 0 THEN 1 ELSE GtAsInt(ShiftBack(df, j), df[j].Close)

TargetOf(df, j) == GtAsInt(ShiftBack(df, j), df[j].Close)

\* df['Target'] = (df['Close'].shift(-1) > df['Close']).astype(int)
WithTarget(df) ==
    [j \in 1..Len(df) |->
        [Date |-> df[j].Date, Close |-> df[j].Close, MA20 |-> df[j].MA20,
         MA50 |-> df[j].MA50, RSI |-> df[j].RSI, Sentiment |-> df[j].Sentiment,
         Target |-> TargetOf(df, j)]]

Indicators(close, sent) ==
    LET ma20 == RollingMean(close, MA20Window)
        ma50 == RollingMean(close, MA50Window)
        rsi == compute_RSI(close, RSIPeriod)
    IN  [i \in 1..Len(close) |->
            [Date |-> i, Close |-> close[i], MA20 |-> ma20[i], MA50 |-> ma50[i],
             RSI |-> rsi[i], Sentiment |-> sent[i]]]

\* stock_sentiment_prediction: Sentiment is a column before the first dropna
base_features(close, sent) ==
    Dropna(WithTarget(Dropna(Indicators(close, sent))))

SetSentiment(df, s) == [j \in 1..Len(df) |-> [df[j] EXCEPT !.Sentiment = s]]

\* enhanced notebook: the scalar avg_sentiment is broadcast after the first dropna
enhanced_features(close, avg) ==
    LET zero == [i \in 1..Len(close) |-> Num(0, 1)]
    IN  Dropna(WithTarget(SetSentiment(Dropna(Indicators(close, zero)), avg)))

(***************************************************************************)
(* Inputs.                                                                 *)
(***************************************************************************)
Deltas == {0 - 1, 0, 1}
SegLens == {RSIPeriod, MA50Window - RSIPeriod}
SegKinds == Deltas \X SegLens
SegFamily == UNION {[1..k -> SegKinds] : k \in 0..MaxSegs}

RECURSIVE StepsBefore(_, _)
StepsBefore(segs, k) == IF k = 1 THEN 0 ELSE segs[k - 1][2] + StepsBefore(segs, k - 1)

Clamp(x, lo, hi) == IF x < lo THEN lo ELSE IF x > hi THEN hi ELSE x

RECURSIVE Moved(_, _, _)
Moved(segs, k, steps) ==
    IF k = 0 THEN 0
    ELSE segs[k][1] * Clamp(steps - StepsBefore(segs, k), 0, segs[k][2])
         + Moved(segs, k - 1, steps)

\* yf.download(...)['Close']: a date-ordered series of closes
DownloadedSeries(segs) ==
    [i \in 1..(1 + StepsBefore(segs, Len(segs) + 1)) |->
        FirstClose + Moved(segs, Len(segs), i - 1)]

NoiseLevels == {0 - NoiseStd, 0, NoiseStd}
NoisePatterns == [1..MaxNoisePeriod -> NoiseLevels]

\* np.linspace(100, 150, 200) + np.random.normal(0, 2, 200), in units of 1/199
SyntheticSeries(noise) ==
    [i \in 1..SynthPeriods |->
        LinStart * (SynthPeriods - 1) + (LinStop - LinStart) * (i - 1)
        + noise[((i - 1) % Len(noise)) + 1] * (SynthPeriods - 1)]

FAKE_HEADLINES == <<"Company reports record earnings",
                    "Market worries over economic slowdown",
                    "Analysts optimistic about growth",
                    "Concerns rise over regulatory issues",
                    "Innovative product launch boosts confidence">>

\* random.choice(headlines), one draw per date, for a generator seed
generate_fake_headlines(seed, date) ==
    FAKE_HEADLINES[((seed * date) % Len(FAKE_HEADLINES)) + 1]

\* sid.polarity_scores(h)['compound'], in hundredths (lexicon scorer, in [-1, 1])
get_sentiment_score(h) ==
    CASE h = FAKE_HEADLINES[1] -> Num(0, 100)
      [] h = FAKE_HEADLINES[2] -> Num(0 - 42, 100)
      [] h = FAKE_HEADLINES[3] -> Num(62, 100)
      [] h = FAKE_HEADLINES[4] -> Num(0, 100)
      [] OTHER -> Num(80, 100)

\* article['title'] of the i-th article of a response
LIVE_TITLES == <<"AAPL slides after downgrade", "AAPL rallies on earnings beat">>
LiveTitle(i) == LIVE_TITLES[((i - 1) % Len(LIVE_TITLES)) + 1]

DEMO_HEADLINES == <<"Apple launches new product amid market hype",
                    "Analysts optimistic about AAPL performance">>

\* sentiment_pipeline(h)[0]: a label and a confidence, in hundredths
BertResults == {[label |-> "POSITIVE", score |-> 99], [label |-> "NEGATIVE", score |-> 90]}

get_bert_sentiment(result) ==
    IF result.label = "POSITIVE" THEN result.score ELSE 0 - result.score

RECURSIVE SumSeq(_, _)
SumSeq(s, i) == IF i = 0 THEN 0 ELSE s[i] + SumSeq(s, i - 1)

\* np.mean(bert_scores)
Mean(scores) == FDiv(Num(SumSeq(scores, Len(scores)), 100), Num(Len(scores), 1))

\* a test size rounded down instead of up
NTest_floor(n) == (n * TestPercent) \div 100

\* train_test_split(X, y, test_size=0.2, shuffle=False): n_test = ceil(0.2 n)
NTest(n) == (n * TestPercent + 99) \div 100
NTrain(n) == n - NTest(n)
TrainPart(df) == SubSeq(df, 1, NTrain(Len(df)))
\* a shuffled split: the test rows come out in another order
TestPart_shuffled(df) ==
    LET n == Len(df)
        k == n - (n - ((n * TestPercent + 99) \div 100))
    IN  [j \in 1..k |-> df[n + 1 - j]]

TestPart(df) == SubSeq(df, NTrain(Len(df)) + 1, Len(df))

Classes(df) == {df[j].Target : j \in 1..Len(df)}

\* the fitted classifier is opaque: a decision rule learnt from the features
Models == {"rsi_rule", "trend_rule"}
Predict(m, r) ==
    IF m = "rsi_rule" THEN (IF FLe(Num(50, 1), r.RSI) THEN 1 ELSE 0)
    ELSE (IF FLe(r.MA50, r.MA20) THEN 1 ELSE 0)
PredictAll(m, df) == [j \in 1..Len(df) |-> Predict(m, df[j])]

(***************************************************************************)
(* The notebooks, one action per cell.                                     *)
(***************************************************************************)
Init ==
    /\ variant \in {"base", "enhanced"}
    /\ pc = IF variant = "base" THEN "download" ELSE "fetch"
    /\ prices = <<>>
    /\ headlines = <<>>
    /\ sentiment = <<>>
    /\ data = <<>>
    /\ train = <<>>
    /\ test = <<>>
    /\ model = "none"
    /\ predictions = <<>>
    /\ error = "none"
    /\ executed = {}

Ran(cell) == executed' = executed \cup {cell}

\* base cell "Step 1": yf.download
Download ==
    /\ pc = "download"
    /\ \E segs \in SegFamily : prices' = DownloadedSeries(segs)
    /\ pc' = "headlines"
    /\ Ran("DataLoader")
    /\ UNCHANGED <<variant, headlines, sentiment, data, train, test, model,
                   predictions, error>>

\* base cell: stock_data['Headline'] = stock_data['Date'].apply(generate_fake_headlines)
FakeHeadlines ==
    /\ pc = "headlines"
    /\ \E seed \in 0..MaxSeed :
         headlines' = [i \in 1..Len(prices) |-> generate_fake_headlines(seed, i)]
    /\ pc' = "sentiment"
    /\ Ran("HeadlineSource")
    /\ UNCHANGED <<variant, prices, sentiment, data, train, test, model,
                   predictions, error>>

\* base cell "Step 2": stock_data['Sentiment'] = ...apply(get_sentiment_score)
VaderSentiment ==
    /\ pc = "sentiment"
    /\ sentiment' = [i \in 1..Len(headlines) |-> get_sentiment_score(headlines[i])]
    /\ pc' = "features"
    /\ Ran("SentimentScorer")
    /\ UNCHANGED <<variant, prices, headlines, data, train, test, model,
                   predictions, error>>

\* base cell "Step 3": indicators, dropna, Target, dropna
BaseFeatures ==
    /\ pc = "features"
    /\ variant = "base"
    /\ data' = base_features(prices, sentiment)
    /\ pc' = "split"
    /\ Ran("FeatureBuilder")
    /\ UNCHANGED <<variant, prices, headlines, sentiment, train, test, model,
                   predictions, error>>

\* enhanced cell 2: fetch_live_headlines and the fallback to the demo headlines
FetchHeadlines ==
    /\ pc = "fetch"
    /\ Ran("HeadlineSource")
    /\ \/ \* requests.get raises (no route, DNS failure, timeout of the stack)
          /\ pc' = "failed"
          /\ error' = "ConnectionError"
          /\ UNCHANGED headlines
       \/ \* a response arrives
          \E status \in {HttpOk, 401, 429}, k \in 0..MaxArticles :
            LET fetched == IF status = HttpOk
                           THEN [i \in 1..k |-> LiveTitle(i)]
                           ELSE <<>>
            IN  /\ headlines' = IF fetched = <<>> THEN DEMO_HEADLINES ELSE fetched
                /\ pc' = "score"
                /\ UNCHANGED error
    /\ UNCHANGED <<variant, prices, sentiment, data, train, test, model, predictions>>

\* enhanced cell 3: BERT score of each headline and their mean
BertSentiment ==
    /\ pc = "score"
    /\ IF headlines # <<>>
       THEN \E results \in [1..Len(headlines) -> BertResults] :
              sentiment' = Mean([i \in 1..Len(headlines) |-> get_bert_sentiment(results[i])])
       ELSE sentiment' = Num(0, 1)
    /\ pc' = "features"
    /\ Ran("SentimentScorer")
    /\ UNCHANGED <<variant, prices, headlines, data, train, test, model,
                   predictions, error>>

\* enhanced cell 4: the simulated series, indicators, dropna, Sentiment, Target, dropna
EnhancedFeatures ==
    /\ pc = "features"
    /\ variant = "enhanced"
    /\ \E noise \in NoisePatterns :
         /\ prices' = SyntheticSeries(noise)
         /\ data' = enhanced_features(prices', sentiment)
    /\ pc' = "split"
    /\ executed' = executed \cup {"DataLoader", "FeatureBuilder"}
    /\ UNCHANGED <<variant, headlines, sentiment, train, test, model,
                   predictions, error>>

\* both notebooks: X, y and train_test_split(..., test_size=0.2, shuffle=False)
Split ==
    /\ pc = "split"
    /\ Ran("Splitter")
    /\ IF NTrain(Len(data)) = 0
       THEN \* sklearn: "the resulting train set will be empty"
            /\ pc' = "failed"
            /\ error' = "ValueError"
            /\ UNCHANGED <<train, test>>
       ELSE /\ train' = TrainPart(data)
            /\ test' = TestPart(data)
            /\ pc' = IF variant = "base" THEN "fit" ELSE "ensemble"
            /\ UNCHANGED error
    /\ UNCHANGED <<variant, prices, headlines, sentiment, data, model, predictions>>

\* base cell "Step 4": model.fit(X_train, y_train)
Fit ==
    /\ pc = "fit"
    /\ Ran("ClassifierFit")
    /\ \/ /\ model' \in Models
          /\ pc' = "evaluate"
          /\ UNCHANGED error
       \/ \* XGBClassifier rejects labels that are not 0..k-1 (only class 1 seen)
          /\ Classes(train) = {1}
          /\ pc' = "failed"
          /\ error' = "ValueError"
          /\ UNCHANGED model
    /\ UNCHANGED <<variant, prices, headlines, sentiment, data, train, test, predictions>>

\* base cell "Model Evaluation": predict, accuracy_score, classification_report
Evaluate ==
    /\ pc = "evaluate"
    /\ predictions' = PredictAll(model, test)
    /\ executed' = executed \cup {"Prediction", "Reporter"}
    /\ pc' = "plot"
    /\ UNCHANGED <<variant, prices, headlines, sentiment, data, train, test, model, error>>

\* base cell "Step 5": the chart of the test rows with the predicted up days
Plot ==
    /\ pc = "plot"
    /\ Ran("Plotter")
    /\ pc' = "done"
    /\ UNCHANGED <<variant, prices, headlines, sentiment, data, train, test, model,
                   predictions, error>>

\* enhanced cell 6: the soft-voting ensemble is fitted, predicts and is reported
FitEvaluate ==
    /\ pc = "ensemble"
    /\ \E m \in Models :
         /\ model' = m
         /\ predictions' = PredictAll(m, test)
    /\ executed' = executed \cup {"ClassifierFit", "Prediction", "Reporter"}
    /\ pc' = "portfolio"
    /\ UNCHANGED <<variant, prices, headlines, sentiment, data, train, test, error>>

\* enhanced cell 7: portfolio optimisation on its own simulated prices
Portfolio ==
    /\ pc = "portfolio"
    /\ Ran("Portfolio")
    /\ pc' = "done"
    /\ UNCHANGED <<variant, prices, headlines, sentiment, data, train, test, model,
                   predictions, error>>

Next ==
    \/ Download
    \/ FakeHeadlines
    \/ VaderSentiment
    \/ BaseFeatures
    \/ FetchHeadlines
    \/ BertSentiment
    \/ EnhancedFeatures
    \/ Split
    \/ Fit
    \/ Evaluate
    \/ Plot
    \/ FitEvaluate
    \/ Portfolio

Spec == Init /\ [][Next]_vars

(***************************************************************************)
(* Properties.                                                             *)
(***************************************************************************)
\* the feature cell has just run: data is the table it hands to the Splitter
\* (no later cell assigns data or prices)
Built == pc = "split"
\* train_test_split returned
SplitDone == "Splitter" \in executed /\ Len(train) > 0
Dates(df) == {df[j].Date : j \in 1..Len(df)}
IsConstant(s) == \A i \in 1..Len(s) : s[i] = s[1]
\* the stretch of the series on which both moving averages are defined
Warm == MA50Window..Len(prices)
\* the dates of the warm stretch whose RSI is undefined
UndefinedRSI ==
    LET rsi == compute_RSI(prices, RSIPeriod)
    IN  {i \in Warm : IsNaN(rsi[i])}

\* C1: the row of the last price observation, which has no following day, is
\* not in the feature table: no row carries a label computed without a
\* next-day close.
C1_LastRowExcluded ==
    Built => \A j \in 1..Len(data) : data[j].Date < Len(prices)

\* C2: every row of the feature table other than the row of the final
\* observation has a label in {0,1} that is 1 exactly when the close of the
\* following day of the original series is strictly greater than the row's
\* close, also when rows between two surviving rows were dropped.
C2_LabelIsNextDay ==
    Built => \A j \in 1..Len(data) :
               data[j].Date < Len(prices) =>
                 /\ data[j].Target \in {0, 1}
                 /\ data[j].Target = 1 <=> prices[data[j].Date + 1] > prices[data[j].Date]

\* C3: for a price sequence of length >= 50 every row of the feature table
\* has a defined value in every column; no row of the warm-up of MA20 or
\* MA50, and no row whose RSI is undefined, is in the table.
C3_NoUndefinedValues ==
    (Built /\ Len(prices) >= MA50Window) =>
        /\ \A j \in 1..Len(data) :
            /\ ~IsNaN(data[j].MA20) /\ ~IsNaN(data[j].MA50)
            /\ ~IsNaN(data[j].RSI) /\ ~IsNaN(data[j].Sentiment)
            /\ data[j].Target \in {0, 1}
            /\ data[j].Close = prices[data[j].Date]
            /\ data[j].Date >= MA50Window
        /\ Dates(data) \cap UndefinedRSI = {}

\* C3 witness: a series of 50 or more observations whose table is non-empty
\* and has lost a row of the warm stretch to an undefined RSI.
C3_Witness ==
    /\ Built /\ Len(prices) >= MA50Window
    /\ Len(data) > 0
    /\ UndefinedRSI # {}

\* C4: when the Splitter succeeds, train followed by test is the table (a
\* prefix and the remaining suffix, nothing lost, duplicated or reordered) and
\* every test date is strictly later than every training date.
C4_SplitIsPrefixSuffix ==
    SplitDone =>
        /\ train \o test = data
        /\ \A a \in 1..Len(train), b \in 1..Len(test) : train[a].Date < test[b].Date

\* C4 witness: a split with several rows on each side.
C4_Witness == SplitDone /\ Len(train) >= 2 /\ Len(test) >= 2

\* C5: in the enhanced pipeline every failed headline retrieval (non-success
\* status, no articles, or the request itself failing) continues with the
\* demonstration headlines: the list is never empty and the run never aborts
\* in the Headline Source step.
C5_FallbackOnEveryFailure ==
    (variant = "enhanced" /\ "HeadlineSource" \in executed) =>
        /\ headlines # <<>>
        /\ ~(pc = "failed" /\ "SentimentScorer" \notin executed)

\* C6: an empty feature table ends the run in an "insufficient history"
\* failure raised by the Feature Builder; the Splitter, the fit, the
\* prediction and the Reporter are never executed in that run.
C6_InsufficientHistory ==
    ("FeatureBuilder" \in executed /\ data = <<>>) =>
        /\ pc = "failed"
        /\ error = "InsufficientHistory"
        /\ executed \cap {"Splitter", "ClassifierFit", "Prediction", "Reporter"} = {}

\* C7: for a constant close series the gain/loss ratio is 0/0 on every row
\* with a full window, each such row has an undefined RSI and is dropped, and
\* the feature table is empty.
C7_ConstantSeriesEmptyTable ==
    (Built /\ IsConstant(prices)) =>
        LET gain == MeanGain(prices, RSIPeriod)
            loss == MeanLoss(prices, RSIPeriod)
            rsi == compute_RSI(prices, RSIPeriod)
        IN  /\ \A i \in RSIPeriod..Len(prices) :
                  /\ gain[i] = Num(0, RSIPeriod) /\ loss[i] = Num(0, RSIPeriod)
                  /\ IsNaN(rsi[i])
            /\ data = <<>>

\* C7 witness: a constant series long enough for both moving averages.
C7_Witness == Built /\ IsConstant(prices) /\ Len(prices) > MA50Window

\* the label column of a table, by date
Labels(df) == [j \in 1..Len(df) |-> <<df[j].Date, df[j].Target>>]
\* another sentiment value: of the opposite sign, never the same
OtherScore(x) == IF x.n > 0 THEN Num(0 - 42, 100) ELSE Num(80, 100)
OtherColumn == [i \in 1..Len(sentiment) |-> OtherScore(sentiment[i])]

\* C8: the labels depend on the close prices alone: the Feature Builder run
\* on the same prices with a different sentiment (in every row, or as the
\* broadcast scalar) yields the same rows with the same labels.
C8_LabelsIgnoreSentiment ==
    Built =>
        IF variant = "base"
        THEN Labels(base_features(prices, OtherColumn)) = Labels(data)
        ELSE Labels(enhanced_features(prices, OtherScore(sentiment))) = Labels(data)

\* C8 witness: a built table with both labels and positive and non-positive
\* sentiment, each replaced by a different value in the second run.
C8_Witness ==
    /\ Built /\ Classes(data) = {0, 1}
    /\ \A j \in 1..Len(data) : ~FEq(OtherScore(data[j].Sentiment), data[j].Sentiment)
    /\ variant = "base" =>
          /\ \E j \in 1..Len(data) : data[j].Sentiment.n > 0
          /\ \E j \in 1..Len(data) : data[j].Sentiment.n <= 0

SyntheticSplit ==
    /\ variant = "enhanced" /\ pc = "ensemble"
    /\ Len(prices) = SynthPeriods
    /\ UndefinedRSI = {}

C10_RSIFiniteInRange ==
    Built =>
        LET gain == MeanGain(prices, RSIPeriod)
            loss == MeanLoss(prices, RSIPeriod)
        IN  /\ \A j \in 1..Len(data) :
                  /\ IsFinite(data[j].RSI)
                  /\ FLe(Num(0, 1), data[j].RSI) /\ FLe(data[j].RSI, Num(100, 1))
                  /\ (loss[data[j].Date].n = 0) => FEq(data[j].RSI, Num(100, 1))
                  /\ (gain[data[j].Date].n = 0) => FEq(data[j].RSI, Num(0, 1))
            /\ \A i \in Warm :
                  (gain[i].n + loss[i].n > 0) => i \in Dates(data)

\* C10 witness: a table with a row of mean loss 0 and a row of mean gain 0.
C10_Witness ==
    /\ Built
    /\ \E j \in 1..Len(data) : FEq(data[j].RSI, Num(100, 1))
    /\ \E j \in 1..Len(data) : FEq(data[j].RSI, Num(0, 1))
====
